---- MODULE Spec2Model ----
(***************************************************************************)
(* geo_qa.py: a crawler that turns a country list, the country pages and   *)
(* the pages of their heads of state into an RDF graph, and a question     *)
(* router that answers fixed-pattern questions from that graph.            *)
(*                                                                         *)
(* Text is a sequence of atoms (one-character strings, or one word where   *)
(* no operation looks inside the word).  An optional value (Python None)   *)
(* is the empty sequence, a present value v is <<v>>.                      *)
(***************************************************************************)
EXTENDS Integers, Sequences, FiniteSets, TLC

VARIABLES
    \* Crawler and module globals
    pc,                 \* position of Crawler.run
    queue,              \* Crawler.queue
    visited,            \* Crawler.visited
    list_of_countries,  \* global registry
    g,                  \* global rdflib graph
    \* history of the crawl
    accepted,           \* every task enqueue_page has put on the queue, in order
    log,                \* one entry per task taken from the queue, in order
    last,               \* the task just run, what was fetched and how it ended
    \* get_first_num
    npc, ntext, nres,
    \* qna / answer
    qpc, question, graph, qidx, qout

crawlVars == <<pc, queue, visited, list_of_countries, g, accepted, log, last>>
numVars   == <<npc, ntext, nres>>
qnaVars   == <<qpc, question, graph, qidx, qout>>
vars      == <<crawlVars, numVars, qnaVars>>

-----------------------------------------------------------------------------
(* Python values                                                           *)

None == <<>>
Some(v) == <<v>>
IsNone(o) == o = <<>>
The(o) == o[1]

Min(a, b) == IF a < b THEN a ELSE b

\* str.startswith
startswith(s, p) == Len(p) <= Len(s) /\ SubSeq(s, 1, Len(p)) = p

\* str.replace(old, new), old not empty
RECURSIVE replace(_, _, _)
replace(s, old, new) ==
    IF s = <<>> THEN <<>>
    ELSE IF startswith(s, old)
         THEN new \o replace(SubSeq(s, Len(old) + 1, Len(s)), old, new)
         ELSE <<Head(s)>> \o replace(Tail(s), old, new)

\* index of the last occurrence of atom c in s, 0 when absent
RECURSIVE rindex(_, _)
rindex(s, c) ==
    IF s = <<>> THEN 0
    ELSE IF s[Len(s)] = c THEN Len(s) ELSE rindex(SubSeq(s, 1, Len(s) - 1), c)

\* str.rpartition(sep)[-1]
rpartition_last(s, sep) == SubSeq(s, rindex(s, sep) + 1, Len(s))

\* str.strip() for blanks
RECURSIVE lstrip(_)
lstrip(s) == IF s # <<>> /\ Head(s) = " " THEN lstrip(Tail(s)) ELSE s
RECURSIVE rstrip(_)
rstrip(s) == IF s # <<>> /\ s[Len(s)] = " " THEN rstrip(SubSeq(s, 1, Len(s) - 1)) ELSE s
strip(s) == rstrip(lstrip(s))

Letters == {"A", "B", "C", "K", "M", "N", "P", "Q", "R", "V", "Z",
            "a", "k", "m", "n", "wiki", "List"}
DigitChars == {"0", "1", "2", "3", "4", "5", "6", "7", "8", "9"}
IsDigit(c) == c \in DigitChars
DigitVal(c) ==
    CASE c = "0" -> 0 [] c = "1" -> 1 [] c = "2" -> 2 [] c = "3" -> 3 [] c = "4" -> 4
      [] c = "5" -> 5 [] c = "6" -> 6 [] c = "7" -> 7 [] c = "8" -> 8 [] c = "9" -> 9

-----------------------------------------------------------------------------
(* Names                                                                   *)

format_name_to_ont(string) == replace(string, <<" ">>, <<"_">>)

format_name_from_ont(string) == replace(rpartition_last(string, "/"), <<"_">>, <<" ">>)

create_wiki_url(name) == replace(name, <<" ">>, <<"_">>)

-----------------------------------------------------------------------------
(* get_first_num                                                           *)

\* length of the run of digits of s that starts at index i
RECURSIVE DigitRun(_, _)
DigitRun(s, i) == IF i <= Len(s) /\ IsDigit(s[i]) THEN 1 + DigitRun(s, i + 1) ELSE 0

\* re.search("\d", s): index of the first digit, 0 when there is none
RECURSIVE FirstDigit(_, _)
FirstDigit(s, i) ==
    IF i > Len(s) THEN 0 ELSE IF IsDigit(s[i]) THEN i ELSE FirstDigit(s, i + 1)

\* (sep \d{3})* from index i, greedy: the index after the last group
RECURSIVE EndOfGroups(_, _, _)
EndOfGroups(s, i, sep) ==
    IF i + 3 <= Len(s) /\ s[i] = sep
       /\ IsDigit(s[i + 1]) /\ IsDigit(s[i + 2]) /\ IsDigit(s[i + 3])
    THEN EndOfGroups(s, i + 4, sep)
    ELSE i

\* (sep \d+)? from index i, greedy: the index after it
EndOfDecimal(s, i, sep) ==
    IF i + 1 <= Len(s) /\ s[i] = sep /\ IsDigit(s[i + 1])
    THEN i + 1 + DigitRun(s, i + 1)
    ELSE i

\* re.search(r"^\d{1,3}((G\d{3})*)(D\d+)?", s).group(), None when no match
GroupedNumber(s, gsep, dsep) ==
    IF s = <<>> \/ ~IsDigit(s[1]) THEN None
    ELSE LET a == 1 + Min(3, DigitRun(s, 1))
             b == EndOfGroups(s, a, gsep)
             c == EndOfDecimal(s, b, dsep)
         IN  Some(SubSeq(s, 1, c - 1))

RECURSIVE ToInt(_)
ToInt(ds) == IF ds = <<>> THEN 0 ELSE 10 * ToInt(SubSeq(ds, 1, Len(ds) - 1)) + DigitVal(ds[Len(ds)])

RECURSIVE StripZeros(_)
StripZeros(ds) ==
    IF ds # <<>> /\ ds[Len(ds)] = "0" THEN StripZeros(SubSeq(ds, 1, Len(ds) - 1)) ELSE ds

\* float(t) for t = digits [ "." digits ]: the integer part and the
\* significant digits of the fraction (none when n.is_integer())
float(t) ==
    LET d == DigitRun(t, 1)
    IN  [int  |-> ToInt(SubSeq(t, 1, d)),
         frac |-> StripZeros(SubSeq(t, d + 2, Len(t)))]

IntNum(n) == [int |-> n, frac |-> <<>>]

get_first_num(s0) ==
    LET m == FirstDigit(s0, 1)
        s == SubSeq(s0, m, Len(s0))
        res1 == GroupedNumber(s, ",", ".")
        res2 == GroupedNumber(s, ".", ",")
        t3 == replace(s, <<",">>, <<>>)
        m3 == FirstDigit(t3, 1)
    IN  IF m = 0 THEN None
        ELSE IF ~IsNone(res1)
             THEN Some(float(replace(The(res1), <<",">>, <<>>)))
        ELSE IF ~IsNone(res2)
             THEN Some(float(replace(replace(The(res2), <<".">>, <<>>), <<",">>, <<".">>)))
        ELSE IF m3 # 0
             THEN Some(IntNum(ToInt(SubSeq(t3, m3, m3 + DigitRun(t3, m3) - 1))))
        ELSE None

\* int(x)
int(n) == n.int

-----------------------------------------------------------------------------
(* Graph nodes and relations                                               *)

\* A node is a URIRef under DBPEDIA_BASE (its identifier in text), a relation
\* URIRef (its path in text), or an rdflib Literal: of a string, of a number
\* (int and frac, as float gives them), of an xsd:date
Node(kind, text, n) == [kind |-> kind, text |-> text, int |-> n.int, frac |-> n.frac]
Page(id) == Node("page", id, IntNum(0))
Rel(name) == Node("rel", <<name>>, IntNum(0))
Literal(text) == Node("str", text, IntNum(0))
NumLiteral(n) == Node("num", <<>>, n)
DateLiteral(text) == Node("date", text, IntNum(0))

president_of == Rel("ontology/president")
prime_minister_of == Rel("ontology/PrimeMinister")
capital_of == Rel("ontology/capital")
type_government_of == Rel("ontology/governmentType")
area_of == Rel("ontology/PopulatedPlace/area")
population_of == Rel("property/populationCensus")
vp_of == Rel("ontology/VicePresident")
birth_day == Rel("ontology/birthDate")
has_the_role_of == Rel("ontology/role")
birth_place == Rel("ontology/birthPlace")

Triple(a, b, c) == [s |-> a, p |-> b, o |-> c]

\* add_to_graph: at its call sites a is a str (made a URIRef under DBPEDIA_BASE),
\* b and c are URIRefs already
add_to_graph(gr, a, b, c) == gr \cup {Triple(Page(format_name_to_ont(a)), b, c)}

-----------------------------------------------------------------------------
(* Info box extraction.  A page gives, per label, the lists the xpath      *)
(* queries return; the functions below do the filtering of the source.     *)

IsAlpha(c) == c \in Letters
HasLetter(t) == \E i \in 1..Len(t) : IsAlpha(t[i])

\* next(iter(xs), None)
first(xs) == IF xs = <<>> THEN None ELSE Some(Head(xs))

WikiPrefix == <<"/", "wiki">>

extract_label_from_infobox(text) ==
    LET Keep(x) == x # <<>> /\ IsAlpha(x[1]) IN SelectSeq(text, Keep)

extract_government_type_from_infobox(href) ==
    LET Keep(x) == x # <<>> /\ startswith(x, WikiPrefix)
        kept == SelectSeq(href, Keep)
    IN  [i \in 1..Len(kept) |-> rpartition_last(kept[i], "/")]

extract_link_from_infobox(href) ==
    LET Keep(x) == startswith(x, WikiPrefix)
        link == first(SelectSeq(href, Keep))
    IN  IF IsNone(link) THEN None
        ELSE Some(create_wiki_url(replace(The(link), <<"/", "wiki", "/">>, <<>>)))

extract_merged_label_from_infobox(text) ==
    LET Keep(x) == x # <<>> /\ x \notin {<<"\n">>, <<" ">>} IN SelectSeq(text, Keep)

\* check_born_country: born is None or the Born cell (its links, its texts)
RECURSIVE born_links(_, _)
born_links(links, registry) ==
    IF links = <<>> THEN None
    ELSE LET c == rpartition_last(Head(links), "/")
         IN  IF c \in registry THEN Some(c) ELSE born_links(Tail(links), registry)

RECURSIVE born_text(_, _)
born_text(text, registry) ==
    IF text = <<>> THEN None
    ELSE LET c == format_name_to_ont(strip(replace(Head(text), <<",">>, <<>>)))
         IN  IF HasLetter(Head(text)) /\ c \in registry THEN Some(c)
             ELSE born_text(Tail(text), registry)

\* check_born_country, were the link loop to miss its registry test
check_born_country_unchecked(born, registry) ==
    IF IsNone(born) THEN None
    ELSE IF The(born).links # <<>>
         THEN Some(rpartition_last(Head(The(born).links), "/"))
         ELSE born_text(The(born).text, registry)

check_born_country(born, registry) ==
    IF IsNone(born) THEN None
    ELSE LET byLink == born_links(The(born).links, registry)
         IN  IF ~IsNone(byLink) THEN byLink
             ELSE born_text(The(born).text, registry)

-----------------------------------------------------------------------------
(* Crawler.  The operators below take and return the crawler's state as a  *)
(* record st: the fields of the Crawler object, the module globals, the    *)
(* history, and raised (an exception is propagating).                      *)

\* URLs are written without the constant "https://en.wikipedia.org/wiki/";
\* the atom "List" is List_of_countries_by_population_(United_Nations)
start_url == <<"List">>

NoneStr == <<"N", "o", "n", "e">>
\* x in (None, "None")
InNone(o) == IsNone(o) \/ The(o) = NoneStr

StateMeta(name, href) == [name |-> name, href |-> href, role |-> "", country |-> <<>>]
PersonMeta(role, name, country) == [name |-> name, href |-> <<>>, role |-> role, country |-> country]

Raise(st) == [st EXCEPT !.raised = TRUE]

enqueue_page_nodedup(st, url, handler, meta) ==
    LET task == [id |-> Len(st.accepted) + 1, by |-> st.cur,
                 url |-> url, handler |-> handler, meta |-> meta]
    IN  [st EXCEPT !.visited = @ \cup {url},
                   !.queue = Append(@, task),
                   !.accepted = Append(@, task)]

enqueue_page(st, url, handler, meta) ==
    IF url \in st.visited THEN st
    ELSE LET task == [id |-> Len(st.accepted) + 1, by |-> st.cur,
                      url |-> url, handler |-> handler, meta |-> meta]
         IN  [st EXCEPT !.visited = @ \cup {url},
                        !.queue = Append(@, task),
                        !.accepted = Append(@, task)]

\* resp is what requests.get does: it raises, or answers 2xx with a document,
\* or answers another status
download_page(st, url, resp) ==
    IF resp.status = "raise" THEN [st |-> Raise(st), page |-> None]
    ELSE IF resp.status = "ok"
         THEN [st |-> [st EXCEPT !.visited = @ \cup {url}], page |-> Some(resp.doc)]
         ELSE [st |-> st, page |-> None]

RECURSIVE start_parser_rows(_, _)
start_parser_rows(st, rows) ==
    IF rows = <<>> THEN st
    ELSE LET a == Head(rows)
         IN  IF IsNone(a.title) \/ IsNone(a.href) THEN Raise(st)
             ELSE LET name == The(a.title)
                      href == The(a.href)
                      st1 == enqueue_page(st, create_wiki_url(name), "parse_state",
                                          StateMeta(name, href))
                      st2 == [st1 EXCEPT !.list_of_countries =
                                             @ \cup {rpartition_last(href, "/")}]
                  IN  start_parser_rows(st2, Tail(rows))

start_parser(st, page) ==
    IF IsNone(page) THEN Raise(st)
    ELSE IF ~The(page).table THEN Raise(st)
    ELSE start_parser_rows(st, The(page).rows)

\* one "if data[role]: enqueue_page(...); add_to_graph(...)" block of parse_state
\* extract_link_from_infobox(infobox, label) or create_wiki_url(name)
head_url(name, href) ==
    LET link == extract_link_from_infobox(href)
    IN  IF IsNone(link) THEN create_wiki_url(name) ELSE The(link)

head_block(st, name, href, role, relation, meta) ==
    IF IsNone(name) THEN st
    ELSE LET st1 == enqueue_page(st, head_url(The(name), href), "parse_person",
                                 PersonMeta(role, The(name), meta.name))
         IN  [st1 EXCEPT !.g = add_to_graph(@, The(name), relation,
                                            Page(format_name_to_ont(meta.name)))]

parse_state(st, page, meta) ==
    IF IsNone(page) THEN Raise(st)
    ELSE IF ~The(page).infobox THEN Raise(st)
    ELSE
    LET infobox == The(page)
        capital_link == extract_link_from_infobox(infobox.capital_href)
        government == extract_government_type_from_infobox(infobox.government_href)
        area_text == first(extract_merged_label_from_infobox(infobox.area_text))
        population_text == first(extract_merged_label_from_infobox(infobox.population_text))
        president == first(extract_label_from_infobox(infobox.president_text))
        vp == first(extract_label_from_infobox(infobox.vp_text))
        pm == first(extract_label_from_infobox(infobox.pm_text))
        premier == first(extract_label_from_infobox(infobox.premier_text))
        \* Literal(None) is the literal "None"
        capital == IF IsNone(capital_link) \/ The(capital_link) = <<>>
                   THEN (IF IsNone(capital_link) THEN NoneStr ELSE <<>>)
                   ELSE rpartition_last(The(capital_link), "/")
        area == IF IsNone(area_text) THEN None ELSE get_first_num(The(area_text))
        population_num == IF IsNone(population_text) THEN None
                          ELSE get_first_num(The(population_text))
    IN  \* int(None) raises TypeError
        IF ~IsNone(population_text) /\ IsNone(population_num) THEN Raise(st)
        ELSE
        LET population == IF IsNone(population_num) THEN None
                          ELSE Some(IntNum(int(The(population_num))))
            country_name == format_name_to_ont(meta.name)
            country == Page(country_name)
            st1 == [st EXCEPT !.list_of_countries = @ \cup {country_name}]
            st2 == head_block(st1, president, infobox.president_href,
                              "president", president_of, meta)
            st3 == head_block(st2, pm, infobox.pm_href, "pm", prime_minister_of, meta)
            st4 == head_block(st3, premier, infobox.primier_href, "pm",
                              prime_minister_of, meta)
            facts ==
                (IF IsNone(population) THEN {}
                 ELSE {Triple(country, population_of, NumLiteral(The(population)))})
                \cup (IF IsNone(area) THEN {}
                      ELSE {Triple(country, area_of, NumLiteral(The(area)))})
                \cup (IF InNone(vp) THEN {}
                      ELSE {Triple(country, vp_of, Literal(The(vp)))})
                \cup {Triple(country, capital_of, Literal(capital))}
                \cup {Triple(country, type_government_of, Page(format_name_to_ont(government[i]))) :
                          i \in 1..Len(government)}
        IN  [st4 EXCEPT !.g = @ \cup facts]

\* the triples parse_person asserts for an info box
person_facts(infobox, meta, registry) ==
    LET bcountry == check_born_country(infobox.born, registry)
        bday == first(infobox.bday)
        president == Page(format_name_to_ont(format_name_to_ont(meta.name)))
    IN  (IF meta.role = "None" THEN {}
         ELSE IF meta.role = "president"
              THEN {Triple(president, has_the_role_of, president_of)}
              ELSE {Triple(president, has_the_role_of, prime_minister_of)})
        \cup (IF InNone(bday) THEN {}
              ELSE {Triple(president, birth_day, DateLiteral(The(bday)))})
        \cup (IF InNone(bcountry) THEN {}
              ELSE {Triple(president, birth_place,
                           Page(format_name_to_ont(The(bcountry))))})

\* parse_person, were it to follow the country of its meta
parse_person_fanout(st, page, meta) ==
    IF IsNone(page) THEN Raise(st)
    ELSE IF ~The(page).infobox THEN Raise(st)
    ELSE LET st1 == enqueue_page(st, <<"Z">> \o create_wiki_url(meta.name),
                                 "parse_person", meta)
         IN  [st1 EXCEPT !.g = @ \cup person_facts(The(page), meta, st.list_of_countries)]

parse_person(st, page, meta) ==
    IF IsNone(page) THEN Raise(st)
    ELSE IF ~The(page).infobox THEN Raise(st)
    ELSE [st EXCEPT !.g = @ \cup person_facts(The(page), meta, st.list_of_countries)]

\* task['handler'](page, task.get("meta"))
handler_call(st, handler, page, meta) ==
    IF handler = "parse_state" THEN parse_state(st, page, meta)
    ELSE parse_person(st, page, meta)

\* one turn of the loop of run: get a task, fetch, call the handler; the
\* except clause swallows what either raises
run_task_retry(st, resp) ==
    LET task == Head(st.queue)
        d == download_page([st EXCEPT !.queue = Tail(@), !.cur = task.id], task.url, resp)
        h == IF d.st.raised THEN d.st
             ELSE handler_call(d.st, task.handler, d.page, task.meta)
        entry == [id |-> task.id, invoked |-> ~d.st.raised, raised |-> h.raised]
    IN  [h EXCEPT !.pc = "RUNNING", !.raised = FALSE, !.log = Append(@, entry),
                  !.queue = IF h.raised THEN Append(@, task) ELSE @]

run_task_abort(st, resp) ==
    LET task == Head(st.queue)
        d == download_page([st EXCEPT !.queue = Tail(@), !.cur = task.id], task.url, resp)
        h == IF d.st.raised THEN d.st
             ELSE handler_call(d.st, task.handler, d.page, task.meta)
        entry == [id |-> task.id, invoked |-> ~d.st.raised, raised |-> h.raised]
    IN  [h EXCEPT !.pc = IF h.raised THEN "ABORTED" ELSE "RUNNING",
                  !.raised = FALSE, !.log = Append(@, entry)]

run_task(st, resp) ==
    LET task == Head(st.queue)
        d == download_page([st EXCEPT !.queue = Tail(@), !.cur = task.id], task.url, resp)
        h == IF d.st.raised THEN d.st
             ELSE handler_call(d.st, task.handler, d.page, task.meta)
        entry == [id |-> task.id, invoked |-> ~d.st.raised, raised |-> h.raised]
    IN  [h EXCEPT !.pc = "RUNNING", !.raised = FALSE, !.log = Append(@, entry)]

\* the first two lines of run: fetch the start page and parse it; nothing
\* catches what they raise
run_seed(st, resp) ==
    LET d == download_page(st, start_url, resp)
        h == IF d.st.raised THEN d.st ELSE start_parser(d.st, d.page)
    IN  [h EXCEPT !.pc = IF h.raised THEN "ABORTED" ELSE "RUNNING", !.raised = FALSE]

-----------------------------------------------------------------------------
(* The pages the crawl can be served                                       *)

MaxSeed == 2        \* rows of the country table

SeqsUpTo(S, n) == UNION {[1..k -> S] : k \in 0..n}

href(segment) == <<"/", "wiki", "/">> \o segment

NameA == <<"A">>
NameB == <<"B", " ", "C">>

SeedRow(title, link) == [title |-> title, href |-> link]
SeedRows ==
    { SeedRow(Some(NameA), Some(href(<<"A">>))),
      SeedRow(Some(NameB), Some(href(<<"B", "_", "C">>))),
      SeedRow(Some(<<"List">>), Some(href(<<"List">>))),
      SeedRow(None, Some(href(<<"A">>))) }               \* an <a> without a title

SeedDocs ==
    {[table |-> FALSE, rows |-> <<>>]}
    \cup {[table |-> TRUE, rows |-> r] : r \in SeqsUpTo(SeedRows, MaxSeed)}

\* the President, Prime Minister, Premier (and "Primier") rows of an info box
Heads ==
    { [president_text |-> <<>>, president_href |-> <<>>,
       pm_text |-> <<>>, pm_href |-> <<>>, premier_text |-> <<>>, primier_href |-> <<>>],
      [president_text |-> << <<"[", "1", "]">>, <<"P">> >>,
       president_href |-> << <<"#", "n">>, href(<<"Q">>) >>,
       pm_text |-> <<>>, pm_href |-> <<>>, premier_text |-> <<>>, primier_href |-> <<>>],
      [president_text |-> << <<"P">> >>, president_href |-> <<>>,
       pm_text |-> << <<"P">> >>, pm_href |-> <<>>,
       premier_text |-> <<>>, primier_href |-> <<>>],
      [president_text |-> <<>>, president_href |-> <<>>,
       pm_text |-> << <<"M", " ", "N">> >>, pm_href |-> <<>>,
       premier_text |-> << <<"N">> >>, primier_href |-> <<>>],
      [president_text |-> << <<"P">> >>, president_href |-> << href(<<"Q">>) >>,
       pm_text |-> << <<"M", " ", "N">> >>, pm_href |-> <<>>,
       premier_text |-> <<>>, primier_href |-> <<>>] }

\* the Area and Population blocks
Numbers ==
    { [area_text |-> <<>>, population_text |-> <<>>],
      [area_text |-> << <<"\n">>, <<"n", "/", "a">> >>,
       population_text |-> << <<"1", ",", "2", "3", "4">> >>],
      [area_text |-> << <<"1", "2", ".", "5", " ", "k", "m">> >>,
       population_text |-> << <<"n", "/", "a">> >>] }

\* the Capital, Government and Vice President rows
Others ==
    { [capital_href |-> <<>>, government_href |-> <<>>, vp_text |-> <<>>],
      [capital_href |-> << href(<<"K">>) >>,
       government_href |-> << <<"#", "n">>, href(<<"R">>) >>,
       vp_text |-> << <<"V">> >>] }

NoHeads == [president_text |-> <<>>, president_href |-> <<>>,
            pm_text |-> <<>>, pm_href |-> <<>>, premier_text |-> <<>>, primier_href |-> <<>>]

CountryDocs ==
    {[infobox |-> FALSE] @@ NoHeads @@ [area_text |-> <<>>, population_text |-> <<>>]
        @@ [capital_href |-> <<>>, government_href |-> <<>>, vp_text |-> <<>>]}
    \cup {[infobox |-> TRUE] @@ h @@ n @@ o : h \in Heads, n \in Numbers, o \in Others}

Born(links, text) == Some([links |-> links, text |-> text])
BDay == <<"1", "9", "-", "0", "1">>

PersonDocs ==
    { [infobox |-> FALSE, born |-> None, bday |-> <<>>],
      [infobox |-> TRUE, born |-> None, bday |-> <<BDay>>],
      [infobox |-> TRUE, bday |-> <<>>,
       born |-> Born(<< href(<<"Z">>), href(<<"A">>) >>, << <<"Z">> >>)],
      [infobox |-> TRUE, bday |-> <<BDay>>,
       born |-> Born(<<>>, << <<"1", "9">>, <<" ", "B", " ", "C", ",">> >>)],
      [infobox |-> TRUE, bday |-> <<>>,
       born |-> Born(<< href(<<"Z">>) >>, << <<"Z">> >>)] }

NoDoc == <<>>
Responses(docs) ==
    {[status |-> "raise", doc |-> NoDoc], [status |-> "bad", doc |-> NoDoc]}
    \cup {[status |-> "ok", doc |-> d] : d \in docs}

-----------------------------------------------------------------------------
(* The crawl: Crawler.run                                                  *)

StateRec ==
    [pc |-> pc, queue |-> queue, visited |-> visited,
     list_of_countries |-> list_of_countries, g |-> g,
     accepted |-> accepted, log |-> log, raised |-> FALSE, cur |-> 0]

Becomes(st) ==
    /\ pc' = st.pc
    /\ queue' = st.queue
    /\ visited' = st.visited
    /\ list_of_countries' = st.list_of_countries
    /\ g' = st.g
    /\ accepted' = st.accepted
    /\ log' = st.log

CrawlInit ==
    /\ pc = "START"
    /\ queue = <<>>
    /\ visited = {}
    /\ list_of_countries = {}
    /\ g = {}
    /\ accepted = <<>>
    /\ log = <<>>
    /\ last = [id |-> 0, url |-> <<>>, handler |-> "", meta |-> StateMeta(<<>>, <<>>),
               resp |-> [status |-> "", doc |-> NoDoc]]

NumIdle == npc = "idle" /\ ntext = <<>> /\ nres = None
QnaIdle == qpc = "idle" /\ question = <<>> /\ graph = {} /\ qidx = 0 /\ qout = None

\* res = self.download_page(self.start_url); self.start_parser(res)
Seed ==
    /\ pc = "START"
    /\ \E resp \in Responses(SeedDocs) :
          /\ Becomes(run_seed(StateRec, resp))
          /\ last' = [id |-> 0, url |-> start_url, handler |-> "start_parser",
                      meta |-> StateMeta(<<>>, <<>>), resp |-> resp]
    /\ UNCHANGED <<numVars, qnaVars>>

\* one turn of "while not self.queue.empty()"
RunTask ==
    /\ pc = "RUNNING"
    /\ queue # <<>>
    /\ \E resp \in Responses(IF Head(queue).handler = "parse_state"
                             THEN CountryDocs ELSE PersonDocs) :
          /\ Becomes(run_task(StateRec, resp))
          /\ last' = [id |-> Head(queue).id, url |-> Head(queue).url,
                      handler |-> Head(queue).handler, meta |-> Head(queue).meta,
                      resp |-> resp]
    /\ UNCHANGED <<numVars, qnaVars>>

\* the loop ends: print(f"Visited {len(self.visited)} pages")
Finish ==
    /\ pc = "RUNNING"
    /\ queue = <<>>
    /\ pc' = "DONE"
    /\ UNCHANGED <<queue, visited, list_of_countries, g, accepted, log, last>>
    /\ UNCHANGED <<numVars, qnaVars>>

Init == CrawlInit /\ NumIdle /\ QnaIdle
Next == Seed \/ RunTask \/ Finish
Spec == Init /\ [][Next]_vars
FairSpec == Spec /\ WF_vars(Next)

-----------------------------------------------------------------------------
(* get_first_num on the texts of numbers                                   *)

MaxGroups == 2      \* groups of three digits after the leading digits

NumPrefixes == {<<>>, <<"p", "o", "p", " ">>}
NumHeads == {<<"1">>, <<"1", "2">>, <<"1", "2", "3">>, <<"1", "2", "3", "4">>}
NumGroups == {<<",", "2", "3", "4">>, <<".", "2", "3", "4">>,
              <<",", "5", "6", "7">>, <<".", "5", "6", "7">>, <<".", "0", "0", "0">>}
NumDecimals == {<<>>, <<".", "5">>, <<",", "5">>}
NumTails == {<<>>, <<" ", "k", "m">>}

RECURSIVE Concat(_)
Concat(ss) == IF ss = <<>> THEN <<>> ELSE Head(ss) \o Concat(Tail(ss))

NumTexts ==
    {<<>>, <<"a", "b", "c">>, <<"n", "/", "a">>}
    \cup {p \o h \o Concat(gs) \o d \o t :
            p \in NumPrefixes, h \in NumHeads, gs \in SeqsUpTo(NumGroups, MaxGroups),
            d \in NumDecimals, t \in NumTails}

NumInit == CrawlInit /\ QnaIdle /\ npc = "in" /\ ntext \in NumTexts /\ nres = None

ParseNum ==
    /\ npc = "in"
    /\ npc' = "out"
    /\ nres' = get_first_num(ntext)
    /\ UNCHANGED <<ntext, crawlVars, qnaVars>>

NextNum == ParseNum
SpecNum == NumInit /\ [][NextNum]_vars

\* the text from its first digit on
FromFirstDigit(s) == SubSeq(s, FirstDigit(s, 1), Len(s))

\* the first digit of s starts 1 to 3 digits followed by one or more groups of
\* "." and exactly three digits, and no decimal part follows
DotGroupedInteger(s) ==
    /\ FirstDigit(s, 1) # 0
    /\ LET t == FromFirstDigit(s)
           d == DigitRun(t, 1)
           e == EndOfGroups(t, d + 1, ".")
       IN  /\ d <= 3
           /\ e > d + 1
           /\ ~(e <= Len(t) /\ IsDigit(t[e]))
           /\ ~(e + 1 <= Len(t) /\ t[e] \in {".", ","} /\ IsDigit(t[e + 1]))

\* the digits of the dot-grouped integer that s starts with, dots stripped
DotStripped(s) ==
    LET t == FromFirstDigit(s)
        e == EndOfGroups(t, DigitRun(t, 1) + 1, ".")
    IN  ToInt(replace(SubSeq(t, 1, e - 1), <<".">>, <<>>))

\* C7: for a text whose first digit starts a dot-grouped integer, get_first_num
\* returns the integer with the dots stripped, which is also what it returns
\* for the comma-grouped spelling of the text.
C7_DotGroupedIsInteger ==
    (npc = "out" /\ DotGroupedInteger(ntext)) =>
        /\ nres = Some(IntNum(DotStripped(ntext)))
        /\ nres = get_first_num(replace(ntext, <<".">>, <<",">>))

-----------------------------------------------------------------------------
(* Properties of the crawl                                                 *)

Ids == 1..Len(accepted)
LogOf(id) == {j \in 1..Len(log) : log[j].id = id}
ChildrenOf(id) == {i \in Ids : accepted[i].by = id}

\* the task in last was taken from the queue and what it ran raised
LastFailed == log # <<>> /\ log[Len(log)].id = last.id /\ log[Len(log)].raised
\* the task in last was fetched and its handler returned
LastHandled(handler) ==
    /\ last.handler = handler
    /\ last.resp.status = "ok"
    /\ log # <<>> /\ log[Len(log)].id = last.id /\ ~log[Len(log)].raised

\* C1: no URL is put on the queue twice, and enqueue_page on a URL that was
\* already accepted changes neither the queue nor the visited set (nor
\* anything else).
C1_VisitedDedup ==
    /\ \A i, j \in Ids : accepted[i].url = accepted[j].url => i = j
    /\ \A i \in Ids :
          enqueue_page(StateRec, accepted[i].url, accepted[i].handler, accepted[i].meta)
              = StateRec

\* a country page naming the same person as president and as prime minister
\* was handled, and one task came of it
C1_Witness ==
    /\ LastHandled("parse_state")
    /\ last.resp.doc.president_text # <<>>
    /\ last.resp.doc.president_text = last.resp.doc.pm_text
    /\ Cardinality(ChildrenOf(last.id)) = 1

\* C2: once the seed page is parsed, a turn of the loop never ends the crawl
\* and never removes a triple, whatever the fetch and the handler do; a turn
\* that fails leaves all the other queued tasks queued; and at DONE every
\* accepted task has been taken from the queue.
C2_FailureIsolated ==
    /\ [][(pc = "RUNNING" /\ queue # <<>>) =>
            /\ pc' = "RUNNING"
            /\ g \subseteq g'
            /\ Len(log') = Len(log) + 1
            /\ log'[Len(log')].raised => queue' = Tail(queue)]_vars
    /\ [](pc = "DONE" => \A i \in Ids : LogOf(i) # {})

\* the crawl is done, a task failed after triples were stored and a later task
\* was handled
C2_Witness ==
    /\ pc = "DONE"
    /\ g # {}
    /\ \E j, k \in 1..Len(log) :
          j < k /\ log[j].raised /\ accepted[log[j].id].handler = "parse_person"
                /\ ~log[k].raised

\* the candidates of a Born cell: the last segment of each link, and each text
\* with a letter, commas removed, trimmed and normalised
BornCandidates(born) ==
    IF IsNone(born) THEN {}
    ELSE {rpartition_last(The(born).links[i], "/") : i \in 1..Len(The(born).links)}
         \cup {format_name_to_ont(strip(replace(The(born).text[i], <<",">>, <<>>))) :
                 i \in {k \in 1..Len(The(born).text) : HasLetter(The(born).text[k])}}

BirthPlaces(gr) == {t \in gr : t.p = birth_place}

\* C3: every birthPlaceOf triple has a member of the country registry as its
\* object; a person page whose Born cell has a candidate in the registry gets
\* a birthPlaceOf triple; a person page with no such candidate adds none.
C3_BirthCountryGated ==
    /\ [](\A t \in BirthPlaces(g) : t.o.kind = "page" /\ t.o.text \in list_of_countries)
    /\ []((LastHandled("parse_person") /\ last.resp.doc.infobox
             /\ BornCandidates(last.resp.doc.born) \cap list_of_countries # {})
           => \E t \in BirthPlaces(g) :
                 /\ t.s = Page(format_name_to_ont(last.meta.name))
                 /\ t.o.text \in BornCandidates(last.resp.doc.born))
    /\ [][(last'.handler = "parse_person" /\ last' # last
             /\ (last'.resp.status # "ok"
                 \/ BornCandidates(last'.resp.doc.born) \cap list_of_countries = {}))
           => BirthPlaces(g') = BirthPlaces(g)]_vars

\* a person page whose Born cell links a page that is no country and then a
\* country was handled, and the country is now the birth place
C3_Witness ==
    /\ LastHandled("parse_person")
    /\ last.resp.doc.infobox
    /\ <<"Z">> \in BornCandidates(last.resp.doc.born)
    /\ \E t \in BirthPlaces(g) :
          /\ t.s = Page(format_name_to_ont(last.meta.name))
          /\ t.o = Page(<<"A">>)
    /\ \A t \in BirthPlaces(g) : t.o.text # <<"Z">>

\* C4: a crawl whose seed page parsed reaches DONE with an empty queue; every
\* task was put on the queue by the seed parser (a country page) or by a
\* country page handler (a person page), none by a person page handler.
C4_Terminates ==
    /\ (pc = "RUNNING") ~> (pc = "DONE" /\ queue = <<>>)
    /\ [](\A i \in Ids :
            \/ accepted[i].by = 0 /\ accepted[i].handler = "parse_state"
            \/ /\ accepted[i].by \in Ids
               /\ accepted[accepted[i].by].handler = "parse_state"
               /\ accepted[i].handler = "parse_person")

\* the crawl of two countries and of person pages is done, with failures
C4_Witness ==
    /\ pc = "DONE" /\ queue = <<>>
    /\ Cardinality(ChildrenOf(0)) = 2
    /\ \E i \in Ids : accepted[i].handler = "parse_person" /\ LogOf(i) # {}
    /\ \E j \in 1..Len(log) : log[j].raised

\* C8: a task is taken from the queue at most once and its handler is called
\* at most once; a task that was taken is never on the queue again; at DONE
\* every accepted task was taken exactly once.
C8_TaskLifecycle ==
    /\ \A i \in Ids : Cardinality(LogOf(i)) <= 1
    /\ \A i \in Ids : Cardinality({j \in LogOf(i) : log[j].invoked}) <= 1
    /\ \A k \in 1..Len(queue) :
          /\ LogOf(queue[k].id) = {}
          /\ \A m \in 1..Len(queue) : queue[m].id = queue[k].id => m = k
    /\ pc = "DONE" => \A i \in Ids : Cardinality(LogOf(i)) = 1

\* a fetch raised, a handler raised, and the crawl went on to DONE
C8_Witness ==
    /\ pc = "DONE"
    /\ \E j \in 1..Len(log) : log[j].raised /\ ~log[j].invoked
    /\ \E j \in 1..Len(log) : log[j].raised /\ log[j].invoked
    /\ Len(log) = Len(accepted)

AcceptedUrls(acc) == {acc[i].url : i \in 1..Len(acc)}

\* C9: the visited set is the set of URLs enqueue_page accepted, and a step of
\* the crawl adds to it only the URLs enqueue_page accepted in that step (the
\* fetch of the step adds nothing).
C9_VisitedIsAccepted ==
    /\ [](visited = AcceptedUrls(accepted))
    /\ [][visited' \ visited \subseteq AcceptedUrls(accepted') \ AcceptedUrls(accepted)]_vars

\* the first text of a merged block is there and has no digit
NoDigit(text) ==
    LET t == first(extract_merged_label_from_infobox(text))
    IN  ~IsNone(t) /\ FirstDigit(The(t), 1) = 0

\* C10: a country page whose population or area text has no digit is handled
\* without raising: the country is registered, no populationOf (areaOf) triple
\* is asserted for it, its person pages are queued and its other facts asserted
\* (here: the capital and the prime minister).
C10_NoDigitIsNoValue ==
    LET doc == last.resp.doc
        country == Page(format_name_to_ont(last.meta.name))
    IN  (/\ last.handler = "parse_state" /\ last.resp.status = "ok" /\ doc.infobox
         /\ NoDigit(doc.population_text) \/ NoDigit(doc.area_text))
        => /\ ~LastFailed
           /\ format_name_to_ont(last.meta.name) \in list_of_countries
           /\ NoDigit(doc.population_text)
                 => ~\E t \in g : t.s = country /\ t.p = population_of
           /\ NoDigit(doc.area_text)
                 => ~\E t \in g : t.s = country /\ t.p = area_of
           /\ \E t \in g : t.s = country /\ t.p = capital_of
           /\ LET pm == first(extract_label_from_infobox(doc.pm_text))
              IN  ~IsNone(pm) =>
                     /\ head_url(The(pm), doc.pm_href) \in AcceptedUrls(accepted)
                     /\ Triple(Page(format_name_to_ont(The(pm))), prime_minister_of,
                               country) \in g

\* the tasks one run of the handler of task id put on the queue with a role
RoleTasks(id, role) == {i \in ChildrenOf(id) : accepted[i].meta.role = role}

\* C11: one run of the country page handler puts on the queue at most one
\* task tagged president and at most one task tagged prime minister, whatever
\* President, Prime Minister and Premier rows the page has; a person page
\* handler puts no task on the queue.
C11_BoundedFanOut ==
    \A k \in Ids :
       /\ accepted[k].handler = "parse_state" =>
             /\ Cardinality(RoleTasks(k, "president")) <= 1
             /\ Cardinality(RoleTasks(k, "pm")) <= 1
       /\ accepted[k].handler = "parse_person" => ChildrenOf(k) = {}

\* the heads of state and government a country page names: the name, the URL
\* of the person page, the role of the task and the relation asserted
PresentHeads(doc) ==
    LET H(text, hrefs, role, relation) ==
            LET name == first(extract_label_from_infobox(text))
            IN  IF IsNone(name) THEN {}
                ELSE {[name |-> The(name), url |-> head_url(The(name), hrefs),
                       role |-> role, relation |-> relation]}
    IN  H(doc.president_text, doc.president_href, "president", president_of)
        \cup H(doc.pm_text, doc.pm_href, "pm", prime_minister_of)
        \cup H(doc.premier_text, doc.primier_href, "pm", prime_minister_of)

\* the person page tasks that carry the name of person p
PersonTasks(p) ==
    {i \in Ids : /\ accepted[i].handler = "parse_person"
                 /\ Page(format_name_to_ont(accepted[i].meta.name)) = p}

\* task i was fetched and its handler returned
HandledOk(i) == \E j \in LogOf(i) : log[j].invoked /\ ~log[j].raised

\* C12: for each head a handled country page names, a person page task with
\* the head's URL and tagged with the head's role is on the accepted list; and
\* at DONE, for every triple (p, presidentOf, c) or (p, primeMinisterOf, c)
\* whose person p has person page tasks, all fetched and handled without
\* failure, the graph holds (p, roleOf, presidentOf) resp. (p, roleOf,
\* primeMinisterOf).
C12_RoleSurvivesDedup ==
    /\ (LastHandled("parse_state") /\ last.resp.doc.infobox) =>
          \A h \in PresentHeads(last.resp.doc) :
             \E i \in Ids : /\ accepted[i].handler = "parse_person"
                            /\ accepted[i].url = h.url
                            /\ accepted[i].meta.role = h.role
    /\ pc = "DONE" =>
          \A t \in g :
             (/\ t.p \in {president_of, prime_minister_of}
              /\ PersonTasks(t.s) # {}
              /\ \A i \in PersonTasks(t.s) : HandledOk(i))
             => Triple(t.s, has_the_role_of, t.p) \in g

-----------------------------------------------------------------------------
(* Questions: QUESTIONS, qna, answer.  A question is a sequence of words,  *)
(* blanks and "?".                                                         *)

\* the words, joined by single blanks
RECURSIVE Words(_)
Words(ws) ==
    IF ws = <<>> THEN <<>>
    ELSE IF Len(ws) = 1 THEN <<ws[1]>>
    ELSE <<Head(ws), " ">> \o Words(Tail(ws))

\* a pattern  pre (.+) suf,  or  pre (.+) mid (.+)? suf  when mid is not empty
Pattern(pre, mid, suf) == [pre |-> pre, mid |-> mid, suf |-> suf]
OneGroup(pre, suf) == Pattern(Words(pre) \o <<" ">>, <<>>, suf)

QUESTIONS ==
    << OneGroup(<<"Who", "is", "the", "president", "of">>, <<"?">>),
       OneGroup(<<"Who", "is", "the", "prime", "minister", "of">>, <<"?">>),
       OneGroup(<<"What", "is", "the", "population", "of">>, <<"?">>),
       OneGroup(<<"What", "is", "the", "area", "of">>, <<"?">>),
       OneGroup(<<"What", "is", "the", "form", "of", "government", "in">>, <<"?">>),
       OneGroup(<<"What", "is", "the", "capital", "of">>, <<"?">>),
       OneGroup(<<"When", "was", "the", "president", "of">>, <<" ", "born", "?">>),
       OneGroup(<<"Where", "was", "the", "president", "of">>, <<" ", "born", "?">>),
       OneGroup(<<"When", "was", "the", "prime", "minister", "of">>, <<" ", "born", "?">>),
       OneGroup(<<"Where", "was", "the", "prime", "minister", "of">>, <<" ", "born", "?">>),
       OneGroup(<<"Who", "is">>, <<"?">>),
       Pattern(<<"How", " ", "many", " ">>, <<" ", "are", " ", "also", " ">>, <<"?">>),
       OneGroup(<<"List", "all", "countries", "whose", "capital", "name",
                  "contains", "the", "string">>, <<>>),
       OneGroup(<<"How", "many", "presidents", "were", "born", "in">>, <<"?">>) >>

Max(S) == CHOOSE x \in S : \A y \in S : y <= x

\* re.match(pattern, q).groupdict(), None when there is no match; the groups
\* are greedy.  g1 is the first named group, g2 the second (None when the
\* pattern has one group, or when the optional group took nothing)
match(p, q) ==
    IF ~startswith(q, p.pre) THEN None
    ELSE IF p.mid = <<>>
    THEN LET E == {e \in (Len(p.pre) + 1)..Len(q) :
                     /\ e + Len(p.suf) <= Len(q)
                     /\ SubSeq(q, e + 1, e + Len(p.suf)) = p.suf}
         IN  IF E = {} THEN None
             ELSE Some([g1 |-> SubSeq(q, Len(p.pre) + 1, Max(E)), g2 |-> None])
    ELSE LET E == {e \in (Len(p.pre) + 1)..Len(q) :
                     /\ e + Len(p.mid) <= Len(q)
                     /\ SubSeq(q, e + 1, e + Len(p.mid)) = p.mid
                     /\ \E k \in (e + Len(p.mid) + 1)..Len(q) : q[k] = "?"}
         IN  IF E = {} THEN None
             ELSE LET e == Max(E)
                      from == e + Len(p.mid) + 1
                      to == Max({k \in from..Len(q) : q[k] = "?"})
                  IN  Some([g1 |-> SubSeq(q, Len(p.pre) + 1, e),
                            g2 |-> IF to > from THEN Some(SubSeq(q, from, to - 1))
                                   ELSE None])

\* re.sub(' +', ' ', question)
RECURSIVE collapse(_)
collapse(q) ==
    IF Len(q) < 2 THEN q
    ELSE IF q[1] = " " /\ q[2] = " " THEN collapse(Tail(q))
    ELSE <<Head(q)>> \o collapse(Tail(q))

\* str.lower
lower_atom(c) ==
    CASE c = "A" -> "a" [] c = "B" -> "b" [] c = "C" -> "c" [] c = "K" -> "k"
      [] c = "M" -> "m" [] c = "N" -> "n" [] c = "P" -> "p" [] c = "Q" -> "q"
      [] c = "R" -> "r" [] c = "V" -> "v" [] c = "Z" -> "z" [] OTHER -> c
lower(t) == [i \in 1..Len(t) |-> lower_atom(t[i])]

contains(t, sub) == \E i \in 1..(Len(t) + 1) : startswith(SubSeq(t, i, Len(t)), sub)

\* the rows of the query answer builds for question_num (what graph.query
\* gives for its triple patterns); a row is the tuple of its selected values
query(gr, question_num, params) ==
    LET country == Page(format_name_to_ont(params.g1))
        Subjects(rel, o) == {t.s : t \in {u \in gr : u.p = rel /\ u.o = o}}
        Objects(s, rel) == {t.o : t \in {u \in gr : u.p = rel /\ u.s = s}}
        Of(people, rel) == UNION {Objects(x, rel) : x \in people}
        Row(S) == {<<x>> : x \in S}
    IN  CASE question_num = 0 -> Row(Subjects(president_of, country))
          [] question_num = 1 -> Row(Subjects(prime_minister_of, country))
          [] question_num = 2 -> Row(Objects(country, population_of))
          [] question_num = 3 -> Row(Objects(country, area_of))
          [] question_num = 4 -> Row(Objects(country, type_government_of))
          [] question_num = 5 -> Row(Objects(country, capital_of))
          [] question_num = 6 -> Row(Of(Subjects(president_of, country), birth_day))
          [] question_num = 7 -> Row(Of(Subjects(president_of, country), birth_place))
          [] question_num = 8 -> Row(Of(Subjects(prime_minister_of, country), birth_day))
          [] question_num = 9 -> Row(Of(Subjects(prime_minister_of, country), birth_place))
          [] question_num = 10 ->
                \* params.g1 is the entity here
                {<<role, c>> : role \in Objects(country, has_the_role_of),
                               c \in {t.o : t \in {u \in gr : u.s = country}}}
                \cap {<<t.p, t.o>> : t \in {u \in gr : u.s = country}}
          [] question_num = 11 ->
                Row(Subjects(type_government_of, country)
                    \cap Subjects(type_government_of,
                                  Page(format_name_to_ont(The(params.g2)))))
          [] question_num = 12 ->
                Row({t.s : t \in {u \in gr : u.p = capital_of
                                            /\ contains(lower(u.o.text), lower(params.g1))}})
          [] question_num = 13 ->
                Row(Subjects(has_the_role_of, president_of)
                    \cap Subjects(birth_place, country))

\* what answer does: it raises, or it prints a name, a number (with a unit), a
\* count, or the sorted ", "-join of the names in items
Raised == [raised |-> TRUE, shape |-> "", name |-> <<>>, num |-> IntNum(0), items |-> {}]
Printed(shape, name, num, items) ==
    [raised |-> FALSE, shape |-> shape, name |-> name, num |-> num, items |-> items]

\* answer(question_num, params) on the loaded graph; row is the row the query
\* engine gives first
answer(gr, question_num, params, row) ==
    IF question_num = 11 /\ IsNone(params.g2) THEN Raised   \* None.replace
    ELSE
    LET ent == query(gr, question_num, params)
    IN  IF question_num \in {0, 1, 5, 6, 7, 8, 9}
        THEN IF ent = {} THEN Raised                         \* ent[0]: IndexError
             ELSE Printed("name", format_name_from_ont(row[1].text), IntNum(0), {})
        ELSE IF question_num = 2
        THEN IF ent = {} THEN Raised
             ELSE Printed("number", <<>>, [int |-> row[1].int, frac |-> row[1].frac], {})
        ELSE IF question_num = 3
        THEN IF ent = {} THEN Raised
             ELSE Printed("number", <<"km", " ", "squared">>,
                          [int |-> row[1].int, frac |-> row[1].frac], {})
        ELSE IF question_num \in {4, 12}
        THEN Printed("list", <<>>, IntNum(0), {format_name_from_ont(x[1].text) : x \in ent})
        ELSE IF question_num = 10
        THEN Printed("list", <<>>, IntNum(0),
                     {format_name_from_ont(x[1].text) \o <<" ", "of", " ">>
                        \o format_name_from_ont(x[2].text) : x \in ent})
        ELSE Printed("count", <<>>, IntNum(Cardinality(ent)), {})

\* the indices (from 0) of the patterns that match q
Matching(q) == {i \in 0..(Len(QUESTIONS) - 1) : ~IsNone(match(QUESTIONS[i + 1], q))}

normalise(q) == collapse(strip(q))

\* the loop of qna from index idx on: the index of the first pattern that
\* matches q, -1 when none does
RECURSIVE first_match(_, _)
first_match(q, idx) ==
    IF idx >= Len(QUESTIONS) THEN -1
    ELSE IF ~IsNone(match(QUESTIONS[idx + 1], q)) THEN idx
    ELSE first_match(q, idx + 1)

\* the same loop, were a later match to replace an earlier one
RECURSIVE last_match(_, _)
last_match(q, idx) ==
    IF idx < 0 THEN -1
    ELSE IF ~IsNone(match(QUESTIONS[idx + 1], q)) THEN idx
    ELSE last_match(q, idx - 1)

qna_last(q) == last_match(normalise(q), Len(QUESTIONS) - 1)

\* qna: the index passed to answer, -1 for "Don't know what question it is..."
qna(q) == first_match(normalise(q), 0)

\* the groupdict qna passes to answer
qna_params(q) == The(match(QUESTIONS[qna(q) + 1], normalise(q)))

-----------------------------------------------------------------------------
(* The questions asked and the graphs they are asked of                    *)

Entities == {<<"A">>, <<"B", " ", "C">>, <<"Z">>}
Forms == {<<"R">>, <<"Z">>}
Substrings == {<<"k">>, <<"K">>, <<"z">>}

Asked ==
    {QUESTIONS[i].pre \o x \o QUESTIONS[i].suf :
        i \in {k \in 1..Len(QUESTIONS) : QUESTIONS[k].mid = <<>>},
        x \in Entities \cup {<<"P">>, <<"M", " ", "N">>} \cup Substrings}
    \cup {QUESTIONS[i].pre \o x \o QUESTIONS[i].mid \o y \o QUESTIONS[i].suf :
            i \in {k \in 1..Len(QUESTIONS) : QUESTIONS[k].mid # <<>>},
            x \in Forms, y \in Forms \cup {<<>>}}
    \cup {<<"Hello">>, <<"Who", " ", "is", " ", "the", " ", "president", " ", "of", "?">>}

\* a question as typed: as it is, with blanks around it, with a doubled
\* blank, or without its last character
Typed(q) ==
    {q, <<" ">> \o q \o <<" ">>, <<Head(q), " ">> \o Tail(q), SubSeq(q, 1, Len(q) - 1)}

QuestionTexts == UNION {Typed(q) : q \in Asked}

CountryA == Page(<<"A">>)
PersonP == Page(<<"P">>)
PersonMN == Page(<<"M", "_", "N">>)

FullGraph ==
    { Triple(PersonP, president_of, CountryA),
      Triple(PersonMN, prime_minister_of, CountryA),
      Triple(CountryA, population_of, NumLiteral(IntNum(1234))),
      Triple(CountryA, area_of, NumLiteral(float(<<"1", "2", ".", "5">>))),
      Triple(CountryA, vp_of, Literal(<<"V">>)),
      Triple(CountryA, capital_of, Literal(<<"K">>)),
      Triple(CountryA, type_government_of, Page(<<"R">>)),
      Triple(PersonP, has_the_role_of, president_of),
      Triple(PersonP, birth_day, DateLiteral(BDay)),
      Triple(PersonP, birth_place, CountryA),
      Triple(PersonMN, has_the_role_of, prime_minister_of),
      Triple(PersonMN, birth_day, DateLiteral(BDay)) }

Graphs ==
    { {},
      FullGraph,
      {Triple(PersonP, president_of, CountryA),
       Triple(CountryA, capital_of, Literal(NoneStr))} }

QnaInit == CrawlInit /\ NumIdle /\ qpc = "in" /\ question \in QuestionTexts
           /\ graph \in Graphs /\ qidx = 0 /\ qout = None

\* python3 geo_qa.py question <text>
Ask ==
    /\ qpc = "in"
    /\ qpc' = "out"
    /\ qidx' = qna(question)
    /\ IF qna(question) = -1
       THEN qout' = Some(Printed("dontknow", <<>>, IntNum(0), {}))
       ELSE LET idx == qna(question)
                params == qna_params(question)
                ent == IF idx = 11 /\ IsNone(params.g2) THEN {}
                       ELSE query(graph, idx, params)
            IN  \E row \in (IF ent = {} THEN {<<>>} ELSE ent) :
                   qout' = Some(answer(graph, idx, params, row))
    /\ UNCHANGED <<question, graph, crawlVars, numVars>>

NextQna == Ask
SpecQna == QnaInit /\ [][NextQna]_vars

\* C5: whenever the query of a routed question has no rows, answer does not
\* raise and what it prints shows that there is no answer (an empty list, a
\* count of 0).
C5_EmptyResultIsNoAnswer ==
    (/\ qpc = "out" /\ qidx >= 0
     /\ ~(qidx = 11 /\ IsNone(qna_params(question).g2))
     /\ query(graph, qidx, qna_params(question)) = {})
    => /\ ~The(qout).raised
       /\ \/ The(qout).shape = "list" /\ The(qout).items = {}
          \/ The(qout).shape = "count" /\ The(qout).num = IntNum(0)

Q_president == QUESTIONS[1]
Q_prime_minister == QUESTIONS[2]
Q_who_is == QUESTIONS[11]

\* C6: the pattern dispatched is the first of the list that matches; a
\* question that matches "Who is the president of X?" (or "Who is the prime
\* minister of X?") and "Who is X?" is dispatched with the index of the former.
C6_SpecificPatternWins ==
    qpc = "out" =>
        LET q == normalise(question)
            M == Matching(q)
        IN  /\ M = {} <=> qidx = -1
            /\ M # {} => qidx \in M /\ \A j \in M : qidx <= j
            /\ (~IsNone(match(Q_president, q)) /\ ~IsNone(match(Q_who_is, q)))
                  => qidx = 0
            /\ (~IsNone(match(Q_prime_minister, q)) /\ ~IsNone(match(Q_who_is, q)))
                  => qidx = 1

\* "Who is the prime minister of B C?", typed with a doubled blank, was
\* dispatched as question 1 though "Who is X?" matches it too
C6_Witness ==
    /\ qpc = "out"
    /\ question # normalise(question)
    /\ ~IsNone(match(Q_prime_minister, normalise(question)))
    /\ ~IsNone(match(Q_who_is, normalise(question)))
    /\ qidx = 1

====
